---- MODULE Spec2Model ----
(***************************************************************************)
(* A model of the crossword CSP solver of generate.py (CrosswordCreator):  *)
(* node consistency, revise / AC-3 and the backtracking search.            *)
(*                                                                         *)
(* Words are sequences of letters; Python's 0-based index k of a word w    *)
(* is w[k+1].  Python sets are TLA+ sets; where the code iterates a set    *)
(* and the order matters, the order is a nondeterministic choice.          *)
(***************************************************************************)
EXTENDS Integers, Sequences, FiniteSets, TLC

(* ---------------------------- bounds ----------------------------------- *)
\* largest number of words in a word list
MaxWords == 3

Alphabet == {"A", "B"}

(* ------------------- crossword.py (Variable, Crossword) ---------------- *)
ACROSS == "across"
DOWN == "down"

\* Variable(i, j, direction, length)
Variable(i, j, direction, length) ==
    [i |-> i, j |-> j, direction |-> direction, length |-> length]

\* the cells a variable covers, in word order
Cells(v) ==
    [k \in 1..v.length |->
        << v.i + (IF v.direction = DOWN THEN k - 1 ELSE 0),
           v.j + (IF v.direction = ACROSS THEN k - 1 ELSE 0) >>]

\* Python's None where an overlap is looked up
None == << >>

\* Crossword.__init__, for one pair of variables: None, or the pair (i, j) of
\* 0-based indices of the shared cell
ComputeOverlap(x, y) ==
    LET common == {p \in (1..x.length) \X (1..y.length) : Cells(x)[p[1]] = Cells(y)[p[2]]}
    IN  IF common = {} THEN None
        ELSE LET p == CHOOSE q \in common : TRUE IN << p[1] - 1, p[2] - 1 >>

\* the structures the puzzles are drawn from
\*   Single:  one isolated slot of length 2
\*   Cross:   an across slot and a down slot sharing the across slot's last cell
\*   Path:    across, down, across; the two across slots do not meet
Single == { Variable(0, 0, ACROSS, 2) }
Cross == { Variable(0, 0, ACROSS, 2), Variable(0, 1, DOWN, 2) }
Path == { Variable(0, 0, ACROSS, 2), Variable(0, 1, DOWN, 2), Variable(1, 1, ACROSS, 2) }
Structures == { Single, Cross, Path }

\* the words a word list is drawn from: every word that fits a slot and one
\* that is too short
AllWords == [1..2 -> Alphabet] \cup { << "A" >> }
WordLists == { W \in SUBSET AllWords : Cardinality(W) <= MaxWords }

\* the orders in which a Python set S can be iterated
RECURSIVE Orders(_)
Orders(S) ==
    IF S = {} THEN { << >> }
    ELSE UNION { { << x >> \o s : s \in Orders(S \ {x}) } : x \in S }

VARIABLES
    variables,   \* crossword.variables
    overlaps,    \* crossword.overlaps
    words,       \* crossword.words
    varOrder,    \* the iteration order of crossword.variables in this process
    domains,     \* self.domains
    pc,          \* "idle", "ac3", "backtrack", "bt_loop", "bt_return", "crashed"
    call,        \* the public method running, or the last one that returned
    arcs,        \* the worklist of ac3
    ac3Ret,      \* what the last ac3 returned: "True", "False", or "pending"
    domAtAc3,    \* self.domains when the last ac3 was called
    rerunOf,     \* the return value of the ac3() this ac3() directly follows, "again" for an
                 \* enforce_node_consistency() directly after another, or "none"
    assignment,  \* the dict handed through backtrack
    stack,       \* the frames of backtrack: [variable, untried], with the assignment
                 \* the call was entered with (entry)
    ret,         \* the value a backtrack frame is returning
    result,      \* what the last solve() returned
    odv,         \* the last call, if it was order_domain_values: << var, assigned, ret >>
    rev          \* the last call, if it was revise and returned: << x, y, ret >>

vars == << variables, overlaps, words, varOrder, domains, pc, call, arcs, ac3Ret, domAtAc3,
           rerunOf, assignment, stack, ret, result, odv, rev >>

\* crossword.overlaps[x, y]
Overlap(x, y) == overlaps[<< x, y >>]

\* crossword.neighbors(var)
Neighbors(x) == { v \in variables : v # x /\ Overlap(v, x) # None }

\* the keys of crossword.overlaps, in insertion order
OverlapKeys ==
    LET n == Len(varOrder)
    IN  SelectSeq([k \in 1..(n * n) |-> << varOrder[((k - 1) \div n) + 1], varOrder[((k - 1) % n) + 1] >>],
                  LAMBDA p : p[1] # p[2])

(* ------------------------------ values ---------------------------------- *)
EmptyAssignment == [v \in {} |-> << >>]
NoneValue == [kind |-> "NoneType", s |-> "", a |-> EmptyAssignment]
StrValue(str) == [kind |-> "str", s |-> str, a |-> EmptyAssignment]
DictValue(a) == [kind |-> "dict", s |-> "", a |-> a]

(* ---------------------- CrosswordCreator.__init__ ---------------------- *)
InitDomains(vs, ws) == [v \in vs |-> ws]

(* ------------------ enforce_node_consistency ---------------------------- *)
enforce_node_consistency_inverted(doms) ==
    [v \in DOMAIN doms |-> { w \in doms[v] : Len(w) # v.length }]

enforce_node_consistency_reset(doms) ==
    [v \in DOMAIN doms |-> { w \in words : Len(w) = v.length }]

enforce_node_consistency_at_most(doms) ==
    [v \in DOMAIN doms |-> { w \in doms[v] : Len(w) <= v.length }]

enforce_node_consistency(doms) ==
    [v \in DOMAIN doms |-> { w \in doms[v] : Len(w) = v.length }]

(* ------------------------------- revise --------------------------------- *)
valid_option_found_every(X, Dy, i, j) ==
    \A Y \in Dy : X[i + 1] = Y[j + 1] /\ X # Y

valid_option_found_same(X, Dy, i, j) ==
    \E Y \in Dy : X[i + 1] = Y[j + 1]

\* line 131, for one X: some Y of domain(y) makes X[i] == Y[j] and X != Y
valid_option_found(X, Dy, i, j) ==
    \E Y \in Dy : X[i + 1] = Y[j + 1] /\ X # Y

\* line 131 raises IndexError for X: the inner loop runs, and X[i] or some Y[j]
\* is out of range (the inner loop never breaks, so every Y is indexed)
RaisesIndexError(X, Dy, i, j) ==
    Dy # {} /\ (Len(X) <= i \/ \E Y \in Dy : Len(Y) <= j)

\* The outcomes of revise(x, y) on doms: the new domains and "True" / "False",
\* or "IndexError" with the words removed before the exception.  The copy of
\* domain(x) is iterated in an arbitrary order, so the words handled before a
\* raising word are any subset of the words that do not raise.
revise(doms, x, y) ==
    IF Overlap(x, y) = None
    THEN { [domains |-> doms, ret |-> "False"] }
    ELSE LET i == Overlap(x, y)[1]
             j == Overlap(x, y)[2]
             ok == { X \in doms[x] : ~RaisesIndexError(X, doms[y], i, j) }
             removed(P) == { X \in P : ~valid_option_found(X, doms[y], i, j) }
         IN  IF ok = doms[x]
             THEN { [domains |-> [doms EXCEPT ![x] = @ \ removed(ok)],
                     ret |-> IF removed(ok) # {} THEN "True" ELSE "False"] }
             ELSE { [domains |-> [doms EXCEPT ![x] = @ \ removed(P)],
                     ret |-> "IndexError"] : P \in SUBSET ok }

(* -------------------------------- ac3 ----------------------------------- *)
\* the worklists handed to ac3(arcs) here: the empty list and the lists of one
\* arc; an arc is any pair of different variables (the keys of
\* crossword.overlaps), with an overlap or without
SuppliedArcs ==
    { << >> } \cup { << p >> : p \in { q \in variables \X variables : q[1] # q[2] } }

Rest_keep(q) == q

\* line 156: what arcs.pop(0) leaves in the worklist
Rest(q) == Tail(q)

InitialArcs_tail ==
    LET all == SelectSeq(OverlapKeys, LAMBDA p : Overlap(p[1], p[2]) # None)
    IN  SubSeq(all, 2, Len(all))

\* lines 149-153: the default worklist
InitialArcs ==
    SelectSeq(OverlapKeys, LAMBDA p : Overlap(p[1], p[2]) # None)


\* lines 162-163: the arcs (z, x) appended after domain(x) was revised, for
\* z in neighbors(x) - {y}, in each order the set difference can be iterated
Requeued_none(x, y) == { << >> }

Requeued(x, y) ==
    { [k \in DOMAIN zs |-> << zs[k], x >>] : zs \in Orders(Neighbors(x) \ {y}) }

(* ------------------------- assignment_complete --------------------------- *)
assignment_complete(a) ==
    Cardinality(DOMAIN a) = Cardinality(variables)

(* ------------------------------ consistent ------------------------------- *)
\* lines 181-191, the pass of the loop for one variable: the ways the pass can
\* end the call, none when the loop goes on.  A word of the wrong length
\* returns False (line 183).  Otherwise the neighbours (a set) are visited in
\* any order, and the first assigned one whose word is too short for the
\* overlap index raises IndexError at line 190, or whose letter differs
\* returns False at line 191.
ConsistentEnds(a, variable) ==
    IF Len(a[variable]) # variable.length
    THEN {"False"}
    ELSE { IF Len(a[neighbour]) <= Overlap(variable, neighbour)[2] THEN "IndexError" ELSE "False" :
             neighbour \in { n \in Neighbors(variable) \cap DOMAIN a :
                                \/ Len(a[n]) <= Overlap(variable, n)[2]
                                \/ a[variable][Overlap(variable, n)[1] + 1]
                                      # a[n][Overlap(variable, n)[2] + 1] } }

consistent_no_overlap_check(a, keys) ==
    IF \A variable \in DOMAIN a : Len(a[variable]) = variable.length
    THEN {"True"}
    ELSE {"False"}

consistent_needs_neighbour(a, keys) ==
    IF \A variable \in DOMAIN a :
          /\ Len(a[variable]) = variable.length
          /\ \A neighbour \in Neighbors(variable) :
                /\ neighbour \in DOMAIN a
                /\ Len(a[neighbour]) > Overlap(variable, neighbour)[2]
                /\ a[variable][Overlap(variable, neighbour)[1] + 1]
                      = a[neighbour][Overlap(variable, neighbour)[2] + 1]
    THEN {"True"}
    ELSE {"False"}

\* consistent(assignment), keys being the keys of the dict in its order: the
\* outcomes "True", "False", "IndexError" the call can have.  The first
\* variable of the loop of line 180 whose pass ends the call decides.
consistent(a, keys) ==
    LET ending == { k \in DOMAIN keys : ConsistentEnds(a, keys[k]) # {} }
    IN  IF ending = {}
        THEN {"True"}
        ELSE ConsistentEnds(a, keys[CHOOSE k \in ending : \A l \in ending : k <= l])

(* ----------------------- select_unassigned_variable ---------------------- *)
\* list.sort(key=...): a stable sort, ascending in key
RECURSIVE StableSort(_, _)
StableSort(s, key) ==
    IF s = << >> THEN << >>
    ELSE LET front == StableSort(SubSeq(s, 1, Len(s) - 1), key)
             e == s[Len(s)]
             k == Cardinality({ n \in DOMAIN front : key[front[n]] <= key[e] })
         IN  SubSeq(front, 1, k) \o << e >> \o SubSeq(front, k + 1, Len(front))

select_unassigned_variable_first(a, doms) ==
    SelectSeq(varOrder, LAMBDA v : v \notin DOMAIN a)[1]

select_unassigned_variable(a, doms) ==
    LET unassigned == SelectSeq(varOrder, LAMBDA v : v \notin DOMAIN a)
        size == [v \in variables |-> Cardinality(doms[v])]
        degree == [v \in variables |-> Cardinality(Neighbors(v))]
        sorted == StableSort(unassigned, size)
        min_domain_length == size[sorted[1]]
        tied == SelectSeq(sorted, LAMBDA v : size[v] = min_domain_length)
    IN  IF Len(unassigned) = 1 THEN unassigned[1]
        ELSE IF Len(unassigned) = 0 THEN None
        ELSE IF size[sorted[2]] # min_domain_length THEN sorted[1]
        ELSE StableSort(tied, degree)[1]

(* -------------------------- order_domain_values -------------------------- *)
\* lines 207-221, for one value: the (neighbour, choice) pairs appended to
\* removed_choices; the keys of the assignment are assigned
removed_choices(var, value, assigned, doms) ==
    { p \in UNION { {n} \X doms[n] : n \in Neighbors(var) \ assigned } :
        LET overlap == Overlap(var, p[1])
            choice == p[2]
        IN  /\ ~(Len(value) < overlap[1] + 1)
            /\ \/ choice = value
               \/ value[overlap[1] + 1] # choice[overlap[2] + 1] }

\* line 220 raises IndexError: choice[overlap[1]] is out of range
OrderRaisesIndexError(var, assigned, doms) ==
    \E value \in doms[var], n \in Neighbors(var) \ assigned :
        \E choice \in doms[n] :
            /\ ~(Len(value) < Overlap(var, n)[1] + 1)
            /\ choice # value
            /\ Len(choice) <= Overlap(var, n)[2]

\* lines 203-223: removed_choices_dict, the count of each value of the domain
\* (@@ makes it a table, filled once as the dict is, and looked up by the sort)
removed_choices_dict(var, assigned, doms) ==
    [value \in doms[var] |-> Cardinality(removed_choices(var, value, assigned, doms))] @@ << >>

order_domain_values_descending(var, assigned, doms, order) ==
    StableSort(order, [value \in doms[var] |->
                         0 - removed_choices_dict(var, assigned, doms)[value]])

\* the list order_domain_values returns when the domain of var is iterated in
\* the order `order`: lines 225-228
order_domain_values(var, assigned, doms, order) ==
    StableSort(order, removed_choices_dict(var, assigned, doms))

(* -------------------------------- main ----------------------------------- *)
\* lines 314-319: what main does with the value solve() returned
MainReport(r) ==
    IF r.kind = "NoneType" THEN "No solution." ELSE "print"

(* ------------------------------------------------------------------------ *)
(*                               the state machine                          *)
(* ------------------------------------------------------------------------ *)
Init ==
    \E S \in Structures, W \in WordLists :
        \E ord \in Orders(S) :
            /\ variables = S
            /\ overlaps = [p \in { q \in S \X S : q[1] # q[2] } |-> ComputeOverlap(p[1], p[2])]
            /\ words = W
            /\ varOrder = ord
            /\ domains = InitDomains(S, W)
            /\ pc = "idle"
            /\ call = "none"
            /\ arcs = << >>
            /\ ac3Ret = "pending"
            /\ domAtAc3 = InitDomains(S, W)
            /\ rerunOf = "none"
            /\ assignment = EmptyAssignment
            /\ stack = << >>
            /\ ret = NoneValue
            /\ result = NoneValue
            /\ odv = << >>
            /\ rev = << >>

\* a call that is not ac3 or solve: what is recorded of the last ac3 and the
\* last solve is forgotten
Forget ==
    /\ ac3Ret' = "pending"
    /\ domAtAc3' = domains'
    /\ rerunOf' = "none"
    /\ result' = NoneValue

\* a call of order_domain_values(var, assignment); the keys of assignment
\* are `assigned` (only neighbours of var are looked up in it), and the domain
\* of var is iterated in any order
OrderDomainValues ==
    /\ pc = "idle"
    /\ \E var \in variables :
          \E assigned \in SUBSET Neighbors(var) :
             IF OrderRaisesIndexError(var, assigned, domains)
             THEN /\ pc' = "crashed"
                  /\ odv' = << >>
             ELSE /\ pc' = "idle"
                  /\ \E sorted_domain \in { order_domain_values(var, assigned, domains, order) :
                                              order \in Orders(domains[var]) } :
                        odv' = << var, assigned, sorted_domain >>
    /\ call' = "order_domain_values"
    /\ rev' = << >>
    /\ UNCHANGED domains
    /\ Forget
    /\ UNCHANGED << variables, overlaps, words, varOrder, arcs, assignment, stack, ret >>

\* a call of enforce_node_consistency()
EnforceNodeConsistency ==
    /\ pc = "idle"
    /\ domains' = enforce_node_consistency(domains)
    /\ call' = "enforce_node_consistency"
    /\ ac3Ret' = "pending"
    /\ domAtAc3' = domains'
    /\ rerunOf' = IF call = "enforce_node_consistency" THEN "again" ELSE "none"
    /\ result' = NoneValue
    /\ odv' = << >>
    /\ rev' = << >>
    /\ UNCHANGED << variables, overlaps, words, varOrder, pc, arcs, assignment, stack, ret >>

\* a call of revise(x, y)
Revise ==
    /\ pc = "idle"
    /\ \E x \in variables, y \in variables :
          /\ x # y
          /\ \E o \in revise(domains, x, y) :
                /\ domains' = o.domains
                /\ pc' = IF o.ret = "IndexError" THEN "crashed" ELSE "idle"
                /\ rev' = IF o.ret = "IndexError" THEN << >> ELSE << x, y, o.ret >>
    /\ call' = "revise"
    /\ Forget
    /\ odv' = << >>
    /\ UNCHANGED << variables, overlaps, words, varOrder, arcs, assignment, stack, ret >>

\* a call of ac3() with arcs = None: lines 149-153
Ac3Call ==
    /\ pc = "idle"
    /\ arcs' = InitialArcs
    /\ pc' = "ac3"
    /\ call' = "ac3"
    /\ ac3Ret' = "pending"
    /\ domAtAc3' = domains
    /\ rerunOf' = IF call = "ac3" THEN ac3Ret ELSE "none"
    /\ result' = NoneValue
    /\ odv' = << >>
    /\ rev' = << >>
    /\ UNCHANGED << variables, overlaps, words, varOrder, domains, assignment, stack, ret >>

Ac3Returns_checked(r) ==
    /\ ac3Ret' = r
    /\ pc' = IF call = "solve" /\ r = "True" THEN "backtrack" ELSE "idle"
    /\ assignment' = IF call = "solve" THEN EmptyAssignment ELSE assignment

\* a call of ac3(arcs) with a worklist: line 149 is false, the worklist is used
\* as it is
Ac3CallWithArcs ==
    /\ pc = "idle"
    /\ \E supplied \in SuppliedArcs : arcs' = supplied
    /\ pc' = "ac3"
    /\ call' = "ac3(arcs)"
    /\ ac3Ret' = "pending"
    /\ domAtAc3' = domains
    /\ rerunOf' = "none"
    /\ result' = NoneValue
    /\ odv' = << >>
    /\ rev' = << >>
    /\ UNCHANGED << variables, overlaps, words, varOrder, domains, assignment, stack, ret >>

\* where control goes when ac3 returns r: to the caller of ac3(), or on to
\* line 94 of solve, backtrack(dict())
Ac3Returns(r) ==
    /\ ac3Ret' = r
    /\ pc' = IF call = "solve" THEN "backtrack" ELSE "idle"
    /\ assignment' = IF call = "solve" THEN EmptyAssignment ELSE assignment

\* one pass of the loop of lines 155-163
Ac3Step ==
    /\ pc = "ac3"
    /\ arcs # << >>
    /\ LET x == Head(arcs)[1]
           y == Head(arcs)[2]
       IN  \E o \in revise(domains, x, y) :
              /\ domains' = o.domains
              /\ IF o.ret = "IndexError"
                 THEN /\ pc' = "crashed"
                      /\ arcs' = Rest(arcs)
                      /\ UNCHANGED << ac3Ret, assignment >>
                 ELSE IF o.ret = "True" /\ o.domains[x] = {}
                 THEN /\ arcs' = << >>
                      /\ Ac3Returns("False")
                 ELSE IF o.ret = "True"
                 THEN /\ \E pushed \in Requeued(x, y) : arcs' = Rest(arcs) \o pushed
                      /\ UNCHANGED << pc, ac3Ret, assignment >>
                 ELSE /\ arcs' = Rest(arcs)
                      /\ UNCHANGED << pc, ac3Ret, assignment >>
    /\ UNCHANGED << variables, overlaps, words, varOrder, call, domAtAc3, rerunOf, stack, ret,
                    result, odv, rev >>

\* line 165: the worklist is empty
Ac3Done ==
    /\ pc = "ac3"
    /\ arcs = << >>
    /\ Ac3Returns("True")
    /\ UNCHANGED << variables, overlaps, words, varOrder, domains, call, arcs, domAtAc3, rerunOf,
                    stack, ret, result, odv, rev >>

\* a call of solve(): lines 92-93 up to the worklist loop of ac3
SolveCall ==
    /\ pc = "idle"
    /\ domains' = enforce_node_consistency(domains)
    /\ arcs' = InitialArcs
    /\ pc' = "ac3"
    /\ call' = "solve"
    /\ ac3Ret' = "pending"
    /\ domAtAc3' = domains'
    /\ rerunOf' = "none"
    /\ result' = NoneValue
    /\ odv' = << >>
    /\ rev' = << >>
    /\ UNCHANGED << variables, overlaps, words, varOrder, assignment, stack, ret >>

(* ------------------------------ backtrack -------------------------------- *)
Top == stack[Len(stack)]

\* the keys of the dict in its order while a word is tried: each frame's
\* variable was inserted (line 281) after those of the frames below it
AssignmentKeys == [k \in DOMAIN stack |-> stack[k].variable]

Pop_keep(a, variable) == a

\* line 290: assignment.pop(variable)
Pop(a, variable) == [v \in DOMAIN a \ {variable} |-> a[v]]

\* entry of backtrack(assignment): lines 272-275
BacktrackEnter ==
    /\ pc = "backtrack"
    /\ IF assignment_complete(assignment)
       THEN /\ ret' = DictValue(assignment)
            /\ pc' = "bt_return"
            /\ UNCHANGED stack
       ELSE /\ LET variable == select_unassigned_variable(assignment, domains)
               IN  stack' = Append(stack, [variable |-> variable, untried |-> domains[variable],
                                        entry |-> assignment])
            /\ pc' = "bt_loop"
            /\ UNCHANGED ret
    /\ UNCHANGED << variables, overlaps, words, varOrder, domains, call, arcs, ac3Ret, domAtAc3,
                    rerunOf, assignment, result, odv, rev >>

BacktrackTry_prune ==
    /\ pc = "bt_loop"
    /\ Top.untried # {}
    /\ \E word \in Top.untried :
          LET tried == [v \in DOMAIN assignment \cup {Top.variable} |->
                           IF v = Top.variable THEN word ELSE assignment[v]]
          IN  /\ stack' = [stack EXCEPT ![Len(stack)].untried = @ \ {word}]
              /\ \E outcome \in consistent(tried, AssignmentKeys) :
                    IF outcome = "True"
                    THEN /\ assignment' = tried
                         /\ pc' = "backtrack"
                         /\ UNCHANGED domains
                    ELSE IF outcome = "False"
                    THEN /\ assignment' = Pop(tried, Top.variable)
                         /\ pc' = "bt_loop"
                         /\ domains' = [domains EXCEPT ![Top.variable] = @ \ {word}]
                    ELSE /\ assignment' = tried
                         /\ pc' = "crashed"
                         /\ UNCHANGED domains
    /\ UNCHANGED << variables, overlaps, words, varOrder, call, arcs, ac3Ret, domAtAc3,
                    rerunOf, ret, result, odv, rev >>

\* one pass of the loop of lines 277-290 up to the recursive call: the next
\* word of the iteration over the domain (a set) is tried
BacktrackTry ==
    /\ pc = "bt_loop"
    /\ Top.untried # {}
    /\ \E word \in Top.untried :
          LET tried == [v \in DOMAIN assignment \cup {Top.variable} |->
                           IF v = Top.variable THEN word ELSE assignment[v]]
          IN  /\ stack' = [stack EXCEPT ![Len(stack)].untried = @ \ {word}]
              /\ \E outcome \in consistent(tried, AssignmentKeys) :
                    IF outcome = "True"
                    THEN /\ assignment' = tried
                         /\ pc' = "backtrack"
                    ELSE IF outcome = "False"
                    THEN /\ assignment' = Pop(tried, Top.variable)
                         /\ pc' = "bt_loop"
                    ELSE /\ assignment' = tried
                         /\ pc' = "crashed"
    /\ UNCHANGED << variables, overlaps, words, varOrder, domains, call, arcs, ac3Ret, domAtAc3,
                    rerunOf, ret, result, odv, rev >>

\* line 292: every word has been tried
BacktrackFail ==
    /\ pc = "bt_loop"
    /\ Top.untried = {}
    /\ ret' = StrValue("failure")
    /\ stack' = SubSeq(stack, 1, Len(stack) - 1)
    /\ pc' = "bt_return"
    /\ UNCHANGED << variables, overlaps, words, varOrder, domains, call, arcs, ac3Ret, domAtAc3,
                    rerunOf, assignment, result, odv, rev >>

\* a backtrack call has returned ret: to solve (line 94), or to the frame
\* that made the recursive call (lines 284-290)
BacktrackReturn ==
    /\ pc = "bt_return"
    /\ IF stack = << >>
       THEN /\ result' = ret
            /\ pc' = "idle"
            /\ ret' = NoneValue
            /\ assignment' = EmptyAssignment
            /\ UNCHANGED stack
       ELSE IF ~(ret.kind = "str" /\ ret.s = "failure")
       THEN /\ stack' = SubSeq(stack, 1, Len(stack) - 1)
            /\ UNCHANGED << pc, assignment, result, ret >>
       ELSE /\ assignment' = Pop(assignment, Top.variable)
            /\ pc' = "bt_loop"
            /\ UNCHANGED << stack, result, ret >>
    /\ UNCHANGED << variables, overlaps, words, varOrder, domains, call, arcs, ac3Ret, domAtAc3,
                    rerunOf, odv, rev >>

Next ==
    \/ EnforceNodeConsistency
    \/ Revise
    \/ OrderDomainValues
    \/ Ac3Call
    \/ Ac3CallWithArcs
    \/ Ac3Step
    \/ Ac3Done
    \/ SolveCall
    \/ BacktrackEnter
    \/ BacktrackTry
    \/ BacktrackFail
    \/ BacktrackReturn

Spec == Init /\ [][Next]_vars

\* ac3 alone, called with and without a worklist on the domains that
\* enforce_node_consistency and earlier calls of ac3 leave; the worklist loop,
\* once entered, keeps running (a loop of a single-threaded program), which is
\* weak fairness of its steps
Ac3Next ==
    \/ EnforceNodeConsistency
    \/ Ac3Call
    \/ Ac3CallWithArcs
    \/ Ac3Step
    \/ Ac3Done

Ac3Spec == Init /\ [][Ac3Next]_vars /\ WF_vars(Ac3Step) /\ WF_vars(Ac3Done)


(* ------------------------------------------------------------------------ *)
(*                                properties                                *)
(* ------------------------------------------------------------------------ *)
\* solve() has returned, and result is what it returned
SolveReturned == pc = "idle" /\ call = "solve"

\* ac3 has returned ac3Ret, and self.domains has not been touched since
Ac3JustReturned ==
    /\ ac3Ret # "pending"
    /\ \/ call = "ac3" /\ pc = "idle"
       \/ call = "solve" /\ pc # "ac3"

IsFailure(r) == r.kind = "str" /\ r.s = "failure"

\* the complete assignments that pick each variable's word from doms
Candidates(doms) ==
    { a \in [variables -> UNION { doms[v] : v \in variables }] :
        \A v \in variables : a[v] \in doms[v] }

\* the pairs of variables with a defined overlap
Overlapping == { p \in variables \X variables : p[1] # p[2] /\ Overlap(p[1], p[2]) # None }

\* the overlap letters of x and y exist and agree in a
Agree(a, x, y) ==
    LET i == Overlap(x, y)[1]
        j == Overlap(x, y)[2]
    IN  /\ i < Len(a[x])
        /\ j < Len(a[y])
        /\ a[x][i + 1] = a[y][j + 1]

OverlapsAgree(a) == \A p \in Overlapping : Agree(a, p[1], p[2])
LengthsFit(a) == \A v \in DOMAIN a : Len(a[v]) = v.length
AllDistinct(a) == \A x \in DOMAIN a, y \in DOMAIN a : x # y => a[x] # a[y]
NodeConsistentWords(v) == { w \in words : Len(w) = v.length }

\* C1: a value solve() returns that is not the failure indicator assigns a
\* word of the variable's length to every variable, and the letters of every
\* overlapping pair agree.
C1_ResultCompleteConsistent ==
    (SolveReturned /\ ~IsFailure(result)) =>
        /\ result.kind = "dict"
        /\ DOMAIN result.a = variables
        /\ LengthsFit(result.a)
        /\ OverlapsAgree(result.a)

C1_Witness ==
    /\ SolveReturned
    /\ result.kind = "dict"
    /\ variables = Path
    /\ Cardinality(words) = MaxWords

\* C2: a complete assignment solve() returns uses each word at most once.
C2_NoDuplicateWords ==
    (SolveReturned /\ result.kind = "dict") => AllDistinct(result.a)

\* C3: when some complete assignment of words of the word list fits every
\* length, agrees on every overlap and uses pairwise distinct words, solve()
\* returns a complete assignment and not the failure indicator.
C3_Completeness ==
    (SolveReturned /\ \E a \in Candidates([v \in variables |-> words]) :
                         LengthsFit(a) /\ OverlapsAgree(a) /\ AllDistinct(a))
        => (result.kind = "dict" /\ DOMAIN result.a = variables)

C3_Witness ==
    /\ SolveReturned
    /\ variables = Path
    /\ \E a \in Candidates([v \in variables |-> words]) :
          LengthsFit(a) /\ OverlapsAgree(a) /\ AllDistinct(a)
    /\ \E v \in variables : domains[v] # NodeConsistentWords(v)
    /\ result.kind = "dict"

\* C4: when no complete consistent assignment is possible, solve() returns
\* None, the value main tests to report "No solution.".
C4_NoSolutionReturnsNone ==
    (SolveReturned /\ ~\E a \in Candidates(domains) : consistent(a, varOrder) = {"True"})
        => (result = NoneValue /\ MainReport(result) = "No solution.")

\* C5 as claimed: when ac3() returns False, no complete assignment picked from
\* the domains of the time of the call agrees on every overlap.
C5_Ac3FalseNoAgreeingAssignment ==
    ac3Ret = "False" => ~\E a \in Candidates(domAtAc3) : OverlapsAgree(a)

\* C5 amended: when ac3() returns False, no complete assignment picked from
\* the domains of the time of the call agrees on every overlap and gives
\* different words to every two overlapping variables.
C5_Ac3Soundness ==
    ac3Ret = "False" =>
        ~\E a \in Candidates(domAtAc3) :
            /\ OverlapsAgree(a)
            /\ \A p \in Overlapping : a[p[1]] # a[p[2]]

C5_Witness ==
    /\ ac3Ret = "False"
    /\ variables = Path
    /\ \A v \in variables : Cardinality(domAtAc3[v]) >= 2
    /\ \E v \in variables : domains[v] # {} /\ domains[v] # domAtAc3[v]

\* C6 as claimed: an ac3() that directly follows an ac3() that returned,
\* whatever it returned, removes no word.
C6_Ac3RerunChangesNothing ==
    (call = "ac3" /\ rerunOf # "none") => domains = domAtAc3

\* C6 amended: an ac3() that directly follows an ac3() that returned True
\* removes no word.
C6_Ac3Fixpoint ==
    (call = "ac3" /\ rerunOf = "True") => domains = domAtAc3

C6_Witness ==
    /\ call = "ac3"
    /\ rerunOf = "True"
    /\ pc = "idle"
    /\ ac3Ret = "True"
    /\ variables = Path
    /\ \E v \in variables : domains[v] # {} /\ domains[v] # NodeConsistentWords(v)

\* C7: ac3 returns False if a domain ends up empty, and True only when no
\* domain is empty.
C7_Ac3ReturnTellsEmptyDomain ==
    Ac3JustReturned => (ac3Ret = "False" <=> \E v \in variables : domains[v] = {})

\* C8: every step leaves each variable's domain a subset of what it was.
C8_DomainsShrink ==
    [][\A v \in variables : domains'[v] \subseteq domains[v]]_vars

C8_Witness ==
    /\ call = "revise"
    /\ pc = "idle"
    /\ \E v \in variables : domains[v] # {} /\ domains[v] # words
    /\ \E v \in variables : domains[v] = words /\ words # {}

\* the choice of select_unassigned_variable on the assigned variables S is
\* unassigned and has a smallest domain among the unassigned
MinDomainChoice(v, S) ==
    /\ v \in variables \ S
    /\ \A u \in variables \ S : Cardinality(domains[v]) <= Cardinality(domains[u])

\* the variables tied for the smallest domain among the unassigned
Tied(S) ==
    { t \in variables \ S :
        \A u \in variables \ S : Cardinality(domains[t]) <= Cardinality(domains[u]) }

\* an assignment whose keys are S (select_unassigned_variable reads the keys only)
Assigning(S) == [v \in S |-> << >>]

\* C9: with a variable unassigned, select_unassigned_variable returns an
\* unassigned variable whose domain is smallest among the unassigned; so is
\* the variable every frame of backtrack works on.
C9_SelectMinDomain ==
    /\ \A S \in SUBSET variables :
          S # variables => MinDomainChoice(select_unassigned_variable(Assigning(S), domains), S)
    /\ pc = "bt_loop" => MinDomainChoice(Top.variable, DOMAIN assignment)

C9_Witness ==
    /\ pc = "bt_loop"
    /\ Len(stack) = 1
    /\ Top.variable # varOrder[1]
    /\ Cardinality(domains[Top.variable]) < Cardinality(domains[varOrder[1]])

\* C10: when several unassigned variables tie for the smallest domain, the
\* variable select_unassigned_variable returns, the one the frame of backtrack
\* works on, is a tied variable with the most neighbors.
C10_SelectHighestDegree ==
    (pc = "bt_loop" /\ Cardinality(Tied(DOMAIN assignment)) >= 2) =>
        /\ Top.variable \in Tied(DOMAIN assignment)
        /\ \A t \in Tied(DOMAIN assignment) :
              Cardinality(Neighbors(Top.variable)) >= Cardinality(Neighbors(t))


\* the number of values a word rules out for the unassigned neighbours of var:
\* over those neighbours, the words of the neighbour's domain that equal the
\* word or differ from it in the overlap letter
RuledOut(var, word, assigned) ==
    Cardinality({ p \in UNION { {n} \X domains[n] : n \in Neighbors(var) \ assigned } :
                    \/ p[2] = word
                    \/ word[Overlap(var, p[1])[1] + 1] # p[2][Overlap(var, p[1])[2] + 1] })

\* C11: at every level of backtrack the words of the selected variable are tried
\* in least-constraining-value order: a word that is tried rules out no more
\* than any word of the frame that is still to be tried.
C11_TriesInLeastConstrainingOrder ==
    [][(pc = "bt_loop" /\ Len(stack') = Len(stack) /\ stack' # stack) =>
          \A word \in Top.untried \ stack'[Len(stack')].untried :
              \A later \in stack'[Len(stack')].untried :
                  RuledOut(Top.variable, word, DOMAIN assignment)
                      <= RuledOut(Top.variable, later, DOMAIN assignment)]_vars

\* order_domain_values has returned odv[3] for the variable odv[1] and an
\* assignment with the keys odv[2]
OrderReturned == pc = "idle" /\ call = "order_domain_values" /\ odv # << >>

\* every word of every domain has the length of its variable
DomainsNodeConsistent ==
    \A v \in variables : \A w \in domains[v] : Len(w) = v.length

\* C12: on node-consistent domains the list order_domain_values returns holds
\* each word of the variable's domain once, in non-decreasing order of the
\* number of values ruled out for the unassigned neighbours.
C12_OrderDomainValues ==
    (OrderReturned /\ DomainsNodeConsistent) =>
        LET var == odv[1]
            assigned == odv[2]
            list == odv[3]
        IN  /\ Len(list) = Cardinality(domains[var])
            /\ { list[k] : k \in DOMAIN list } = domains[var]
            /\ \A k \in DOMAIN list, l \in DOMAIN list :
                  k < l => RuledOut(var, list[k], assigned) <= RuledOut(var, list[l], assigned)

C12_Witness ==
    /\ OrderReturned
    /\ DomainsNodeConsistent
    /\ variables = Path
    /\ Cardinality(Neighbors(odv[1])) = 2
    /\ Cardinality(odv[2]) = 1
    /\ Len(odv[3]) = MaxWords
    /\ RuledOut(odv[1], odv[3][1], odv[2]) < RuledOut(odv[1], odv[3][Len(odv[3])], odv[2])
    /\ RuledOut(odv[1], odv[3][1], odv[2]) < RuledOut(odv[1], odv[3][1], {})


\* a step of backtrack that tries a word: the frame stays, a word leaves untried
TryStep == pc = "bt_loop" /\ Len(stack') = Len(stack) /\ stack' # stack

\* C13: for an assignment whose words fit their variables, consistent returns
\* false exactly when two assigned variables with a defined overlap disagree on
\* the overlap letter; backtrack goes on to the next word (pc stays "bt_loop")
\* exactly when consistent returned false for the assignment with the tried word.
C13_ConsistentIffOverlapsAgree ==
    [][TryStep =>
          LET word == CHOOSE w \in Top.untried : w \notin stack'[Len(stack')].untried
              tried == [v \in DOMAIN assignment \cup {Top.variable} |->
                           IF v = Top.variable THEN word ELSE assignment[v]]
          IN  LengthsFit(tried) =>
                 (pc' = "bt_loop" <=>
                     \E p \in Overlapping :
                        /\ p[1] \in DOMAIN tried
                        /\ p[2] \in DOMAIN tried
                        /\ ~Agree(tried, p[1], p[2]))]_vars

C13_Witness ==
    /\ variables = Cross
    /\ pc = "bt_loop"
    /\ Len(stack) = 2
    /\ Top.untried # domains[Top.variable]
    /\ Top.untried # {}


\* a call of revise(x, y) that returns
ReviseStep == pc = "idle" /\ call' = "revise" /\ pc' = "idle"

\* C14: a call revise(x, y) that returns leaves in domain(x), when the overlap
\* of x and y is (i, j), exactly the words X it held for which some word Y of
\* domain(y) has Y # X and X[i] = Y[j], leaves every other domain as it was, and
\* returns True exactly when a word was removed; when the overlap is None it
\* changes nothing and returns False.
C14_ReviseContract ==
    [][ReviseStep =>
          LET x == rev'[1]
              y == rev'[2]
              revised == rev'[3]
          IN  IF Overlap(x, y) = None
              THEN domains' = domains /\ revised = "False"
              ELSE LET i == Overlap(x, y)[1]
                       j == Overlap(x, y)[2]
                   IN  /\ domains'[x] = { X \in domains[x] :
                                            \E Y \in domains[y] : Y # X /\ X[i + 1] = Y[j + 1] }
                       /\ \A v \in variables \ {x} : domains'[v] = domains[v]
                       /\ revised = "True" <=> domains'[x] # domains[x]]_vars

C14_Witness ==
    /\ pc = "idle"
    /\ call = "revise"
    /\ rev # << >>
    /\ rev[3] = "True"
    /\ domains[rev[1]] # {}
    /\ domains[rev[1]] \cap domains[rev[2]] # {}


\* a call of enforce_node_consistency()
EnforceStep == pc = "idle" /\ call' = "enforce_node_consistency"

\* C15: enforce_node_consistency keeps in the domain of each variable exactly
\* the words it held whose length is the length of the variable, and a call
\* that directly follows another call of it changes no domain.
C15_NodeConsistencyIdempotent ==
    [][EnforceStep =>
          /\ \A v \in variables :
                domains'[v] = { w \in domains[v] : Len(w) = v.length }
          /\ call = "enforce_node_consistency" => domains' = domains]_vars

C15_Witness ==
    /\ pc = "idle"
    /\ call = "enforce_node_consistency"
    /\ rerunOf = "again"
    /\ \E v \in variables : domains[v] # {} /\ domains[v] # words


\* line 292: a call of backtrack returns "failure"
FailureStep == pc = "bt_loop" /\ pc' = "bt_return"

\* C16: whenever a call of backtrack returns "failure", the assignment holds
\* exactly the bindings it held when that call was entered.
C16_UndoDiscipline ==
    [][FailureStep => IsFailure(ret') /\ assignment' = Top.entry]_vars

C16_Witness ==
    /\ pc = "bt_return"
    /\ IsFailure(ret)
    /\ stack # << >>
    /\ assignment # EmptyAssignment
    /\ Top.untried # {}


\* the ac3() of line 93 returns
SolveAc3Returns == call = "solve" /\ pc = "ac3" /\ pc' # "ac3"

\* the backtrack(dict()) of line 94 returns to solve
SolveBacktrackReturns == call = "solve" /\ pc = "bt_return" /\ pc' = "idle"

\* C17: whatever the ac3() of solve returns, solve goes on to backtrack with
\* the empty assignment; and when a domain is empty then, the value backtrack
\* returns to solve is "failure".
C17_SolveAlwaysBacktracks ==
    [][/\ SolveAc3Returns =>
             /\ pc' = "backtrack"
             /\ assignment' = EmptyAssignment
             /\ stack' = << >>
       /\ (SolveBacktrackReturns /\ \E v \in variables : domains[v] = {}) =>
             IsFailure(result')]_vars

C17_Witness ==
    /\ SolveReturned
    /\ ac3Ret = "False"
    /\ IsFailure(result)
    /\ \E v \in variables : domains[v] = {}
    /\ \E v \in variables : domains[v] # {}


\* backtrack is running, at any depth
InBacktrack == pc \in {"backtrack", "bt_loop", "bt_return"}

\* C19: no step of backtrack, at any recursion level, on success or on
\* failure, changes the domain of a variable; so the domains when backtrack
\* returns to solve are those it was first called with.
C19_BacktrackKeepsDomains ==
    [][InBacktrack => domains' = domains]_vars

C19_Witness ==
    /\ pc = "bt_loop"
    /\ Len(stack) >= 2
    /\ Top.untried = {}
    /\ domains[Top.variable] # {}
    /\ domains = domAtAc3


\* every word of every domain has, in the domain of each overlapping variable,
\* a different word with the same letter in the shared cell
ArcConsistent ==
    \A p \in Overlapping :
        \A X \in domains[p[1]] :
            \E Y \in domains[p[2]] :
                /\ Y # X
                /\ Len(X) > Overlap(p[1], p[2])[1]
                /\ Len(Y) > Overlap(p[1], p[2])[2]
                /\ X[Overlap(p[1], p[2])[1] + 1] = Y[Overlap(p[1], p[2])[2] + 1]

\* C20: when ac3() with the default worklist has returned True, the domains
\* are arc consistent: for every ordered pair (x, y) with an overlap (i, j) and
\* every word X of domain(x) there is a word Y of domain(y) with Y # X and
\* X[i] = Y[j].
C20_Ac3TrueArcConsistent ==
    (Ac3JustReturned /\ ac3Ret = "True") => ArcConsistent

C20_Witness ==
    /\ Ac3JustReturned
    /\ call = "ac3"
    /\ ac3Ret = "True"
    /\ variables = Path
    /\ \A v \in variables : domains[v] # {}
    /\ \E v \in variables : domains[v] # domAtAc3[v]


\* C18: the worklist loop of ac3, entered with the default worklist or with a
\* supplied one and on any domains, stops: ac3 returns (or an exception ends it).
C18_Ac3Terminates ==
    (pc = "ac3") ~> (pc # "ac3")

C18_Witness ==
    /\ pc = "idle"
    /\ call = "ac3(arcs)"
    /\ ac3Ret = "True"
    /\ variables = Path
    /\ \E v \in variables : domains[v] # domAtAc3[v]
    /\ \A v \in variables : domains[v] # {}

====
